---- MODULE Spec2Model ----
(***************************************************************************)
(* Windowing subsystem of robot-codeplus: ModalManager (the registry),     *)
(* ModalWindow (one floating panel), Dock and Launchpad, with the wiring   *)
(* CustomUIManager.setupEventHandlers installs between them.               *)
(*                                                                         *)
(* Six specifications share the module:                                    *)
(*   Spec        the registry, its windows, the close timers and the dock  *)
(*   SpecGeom    one ModalWindow's geometry: maximize and resize           *)
(*   SpecLaunch  the Launchpad: overlay, query, filtered view and launch   *)
(*   SpecKeys    the Launchpad with the keyboard: F4, Escape, the dwell    *)
(*               timer of the Meta key and the Windows-key listener        *)
(*   SpecBar     the title bar: branding label, tab strip, its debounce    *)
(*               and animation timers, and the menu buttons                *)
(*   SpecDrag    one ModalWindow's gestures: the title bar's drag, the     *)
(*               resize handles and the document's mouse listeners         *)
(* All six share the handlers; all but SpecKeys act on the same registry.  *)
(***************************************************************************)
EXTENDS Integers, Sequences, FiniteSets, TLC

(***************************************************************************)
(* Bounds                                                                  *)
(***************************************************************************)
\* number of operations (handler calls and timer firings) in one behaviour
\* of the registry specification
MaxSteps == 6
\* number of distinct titles createModal is called with
MaxTitles == 3

\* number of operations in one behaviour of the geometry specification
MaxGeomSteps == 4
\* number of resize gestures in progress at once
MaxPresses == 1
\* length of the text typed into the launchpad's search input
MaxQueryLen == 2
\* number of Launchpad.hide timers pending at once
MaxHideTimers == 1
\* number of timers of the Windows-key listener pending at once
MaxWindowsKeyTimers == 1
\* number of windows launched in one behaviour of the launchpad
\* specification
MaxLaunched == 1
\* number of operations in one behaviour of the title bar specification
MaxBarSteps == 6
\* mouse events of the gesture specification
MaxDragSteps == 3
\* startResize calls whose listeners are on the document at one time
MaxGestures == 2

TitlePool == <<"Alpha", "Beta", "Gamma", "Delta", "Epsilon">>

(***************************************************************************)
(* Program constants                                                       *)
(***************************************************************************)
\* ModalManager.nextZIndex initial value
INITIAL_NEXT_Z == 1000
\* z-index: 100 in ModalWindow.createModalElement, and the floor in
\* bringModalToFront
MODAL_BASE_Z == 100
\* resetModalZIndexes starts numbering here
RESET_BASE_Z == 1000
\* Math.max(300, ...) in startResize and min-width: 300px
MIN_WIDTH == 300
\* Math.max(200, ...) in startResize and min-height: 200px
MIN_HEIGHT == 200
\* border: 1px solid on the dialog element (no box-sizing is set, so the
\* border lies outside width and height)
BORDER == 1
\* left: 10px, top: 10px and calc(100% - 20px) in maximize
MAXIMIZE_INSET == 10
\* height of the title bar that precedes the content area
TITLE_BAR_HEIGHT == 35

VARIABLES
    windows,      \* every ModalWindow constructed so far, by creation order
    modals,       \* ModalManager.modals: Map title -> window, in Map order
    nextZIndex,   \* ModalManager.nextZIndex
    activeModal,  \* ModalManager.activeModal (0 = undefined)
    timers,       \* pending setTimeout callbacks of closeModal, FIFO
    minimizedModals, \* Dock.minimizedModals: Map keys in Map order
    emitted,      \* notifications the last operation delivered, in order
    lastOp,       \* the last operation and the window it was given
    afterCloseAll, \* closeAllModals ran and only close timers fired since
    steps,        \* operations performed so far
    host,         \* the content area's box in viewport coordinates
    resizeSessions, \* the listener pairs startResize has on the document
    toggleTrail,  \* geometry before a toggleMaximize pair in progress
    isVisible,    \* Launchpad.isVisible
    launchpadDisplay, \* launchpadElement.style.display
    searchValue,  \* searchInput.value
    filteredModals, \* Launchpad.filteredModals
    launchTimers, \* pending setTimeout callbacks of Launchpad.hide and of
                  \* the keydown listeners, in the order they will run
    metaKeyPressed, \* setupEventHandlers' metaKeyPressed
    metaKeyTimeout, \* setupEventHandlers' metaKeyTimeout (0 = null)
    platformWin,  \* navigator.platform.includes('Win')
    interrupted,  \* since Meta went down another key went down or Meta
                  \* went up
    brandingText, \* TitleBarManager.brandingElement.textContent
    activeModalTitle, \* TitleBarManager.activeModalTitle
    tabsTimer,    \* the timer of updateModalTabsDebounced is pending
    modalTabs,    \* the tabs in TitleBarManager.modalTabsContainer
    animations,   \* pending timers of DOMUtils.animate, FIFO
    menuAction,   \* the action handleMenuAction was last given
    dragState,    \* makeDraggable's isDragging, startX, startY, startLeft,
                  \* startTop
    documentListeners, \* the mousemove and mouseup listeners makeDraggable
                  \* and startResize have on the document, in the order added
    mouse         \* the last mousemove or mouseup on the document and the
                  \* number of listeners it ran

regVars == <<windows, modals, nextZIndex, activeModal, timers,
             minimizedModals, emitted, lastOp, afterCloseAll, steps>>

dragVars == <<dragState, documentListeners, mouse>>

geomVars == <<host, resizeSessions, toggleTrail, dragVars>>

launchVars == <<isVisible, launchpadDisplay, searchValue, filteredModals,
                launchTimers>>

keyVars == <<metaKeyPressed, metaKeyTimeout, platformWin, interrupted>>

barVars == <<brandingText, activeModalTitle, tabsTimer, modalTabs,
             animations, menuAction>>

Max(a, b) == IF a >= b THEN a ELSE b

(***************************************************************************)
(* JavaScript Map<string, _> as a sequence in iteration order              *)
(***************************************************************************)
MapHas(m, t) == \E i \in 1..Len(m) : m[i].title = t
MapIndex(m, t) == CHOOSE i \in 1..Len(m) : m[i].title = t
\* Map.get: the window id stored under t, 0 for undefined
MapGet(m, t) == IF MapHas(m, t) THEN m[MapIndex(m, t)].id ELSE 0
\* Map.set: an existing key keeps its position, a new key goes last
MapSet(m, t, w) ==
    IF MapHas(m, t)
    THEN [m EXCEPT ![MapIndex(m, t)] = [title |-> t, id |-> w]]
    ELSE Append(m, [title |-> t, id |-> w])
\* Map.delete
MapDelete(m, t) == SelectSeq(m, LAMBDA e : e.title # t)
MapValues(m) == {m[i].id : i \in 1..Len(m)}

(***************************************************************************)
(* The heap the handlers work on, as one record                            *)
(***************************************************************************)
Heap == [windows |-> windows, modals |-> modals, nextZIndex |-> nextZIndex,
         activeModal |-> activeModal, timers |-> timers,
         minimizedModals |-> minimizedModals, emitted |-> <<>>,
         brandingText |-> brandingText,
         activeModalTitle |-> activeModalTitle, tabsTimer |-> tabsTimer,
         modalTabs |-> modalTabs, animations |-> animations]

Emit(h, kind, t) ==
    [h EXCEPT !.emitted = Append(@, [kind |-> kind, title |-> t])]

(***************************************************************************)
(* Dock                                                                    *)
(***************************************************************************)
\* addMinimizedModal on an array instead of a Map
addMinimizedModal_push(d, t) == Append(d, t)

addMinimizedModal(d, t) ==
    IF \E i \in 1..Len(d) : d[i] = t THEN d ELSE Append(d, t)

removeModal(d, t) == SelectSeq(d, LAMBDA x : x # t)

(***************************************************************************)
(* TitleBarManager: the branding label and the debounced tab rebuild       *)
(***************************************************************************)
DefaultBranding == "Robot Code+"

\* EventUtils.debounce(() => this.updateModalTabs(), 10), called: the
\* pending timer, if any, is cleared and a new one is set
updateModalTabsDebounced(h) == [h EXCEPT !.tabsTimer = TRUE]

updateActiveModal(h, modalTitle) ==
    updateModalTabsDebounced(
        [h EXCEPT !.activeModalTitle = modalTitle,
                  !.brandingText = IF modalTitle = "" THEN DefaultBranding
                                                      ELSE modalTitle])

resetToDefaultBranding(h) ==
    updateModalTabsDebounced(
        [h EXCEPT !.activeModalTitle = "",
                  !.brandingText = DefaultBranding])

(***************************************************************************)
(* CustomUIManager.setupEventHandlers: the callbacks given to ModalManager *)
(***************************************************************************)
onModalSelected(h, t) ==
    updateActiveModal(Emit(h, "selectionChanged", t), t)

onModalMinimized(h, t) ==
    [Emit(h, "minimized", t) EXCEPT
        !.minimizedModals = addMinimizedModal(@, t)]

onModalRestoredFromDock(h, t) ==
    [Emit(h, "restored", t) EXCEPT !.minimizedModals = removeModal(@, t)]

onModalClosed(h, t) ==
    [Emit(h, "closed", t) EXCEPT !.minimizedModals = removeModal(@, t)]

(***************************************************************************)
(* ModalWindow                                                             *)
(***************************************************************************)
\* state.originalSize is <<>> when undefined, else <<the saved box>>.
\* fill is TRUE while style.width and style.height are calc(100% - 20px).
NewModalWindow(t, width, height, left, top) ==
    [title |-> t, isMinimized |-> FALSE, isMaximized |-> FALSE,
     originalSize |-> <<>>, active |-> FALSE,
     zIndex |-> MODAL_BASE_Z, display |-> "flex", inDom |-> TRUE,
     width |-> width, height |-> height, left |-> left, top |-> top,
     fill |-> FALSE]

\* element.getBoundingClientRect(): the border box in viewport coordinates;
\* an element that is not rendered has an all-zero box
getBoundingClientRect(m, hst) ==
    IF m.display = "none" \/ ~m.inDom
    THEN [width |-> 0, height |-> 0, left |-> 0, top |-> 0]
    ELSE [width  |-> Max(MIN_WIDTH,
                         IF m.fill THEN hst.width - 2 * MAXIMIZE_INSET
                                   ELSE m.width) + 2 * BORDER,
          height |-> Max(MIN_HEIGHT,
                         IF m.fill THEN hst.height - 2 * MAXIMIZE_INSET
                                   ELSE m.height) + 2 * BORDER,
          left   |-> hst.left + m.left,
          top    |-> hst.top + m.top]

maximize(m, hst) ==
    IF ~m.isMaximized
    THEN [m EXCEPT !.originalSize = <<getBoundingClientRect(m, hst)>>,
                   !.fill = TRUE, !.width = 0, !.height = 0,
                   !.left = MAXIMIZE_INSET, !.top = MAXIMIZE_INSET,
                   !.isMaximized = TRUE]
    ELSE m

\* restoreSize that forgets to clear originalSize
restoreSize_keepOriginalSize(m) ==
    IF m.isMaximized /\ m.originalSize # <<>>
    THEN [m EXCEPT !.width = m.originalSize[1].width,
                   !.height = m.originalSize[1].height,
                   !.left = m.originalSize[1].left,
                   !.top = m.originalSize[1].top,
                   !.fill = FALSE,
                   !.isMaximized = FALSE]
    ELSE m

restoreSize(m) ==
    IF m.isMaximized /\ m.originalSize # <<>>
    THEN [m EXCEPT !.width = m.originalSize[1].width,
                   !.height = m.originalSize[1].height,
                   !.left = m.originalSize[1].left,
                   !.top = m.originalSize[1].top,
                   !.fill = FALSE,
                   !.isMaximized = FALSE,
                   !.originalSize = <<>>]
    ELSE m

toggleMaximize(m, hst) ==
    IF m.isMaximized THEN restoreSize(m) ELSE maximize(m, hst)

\* direction.includes(c) for the eight handle names
Directions == {"nw", "n", "ne", "e", "se", "s", "sw", "w"}
Includes(direction, c) ==
    CASE c = "n" -> direction \in {"nw", "n", "ne"}
      [] c = "s" -> direction \in {"se", "s", "sw"}
      [] c = "e" -> direction \in {"ne", "e", "se"}
      [] c = "w" -> direction \in {"nw", "w", "sw"}

\* what startResize captures at mousedown
startResize(m, hst, direction, x, y) ==
    LET rect == getBoundingClientRect(m, hst)
    IN  [direction |-> direction, startX |-> x, startY |-> y,
         startWidth |-> rect.width, startHeight |-> rect.height,
         startLeft |-> rect.left, startTop |-> rect.top]

\* onMouseMove of startResize without the Math.max clamps
resizeOnMouseMove_noClamp(m, r, x, y) ==
    LET deltaX == x - r.startX
        deltaY == y - r.startY
        newWidth == IF Includes(r.direction, "e")
                    THEN r.startWidth + deltaX
                    ELSE IF Includes(r.direction, "w")
                         THEN r.startWidth - deltaX
                         ELSE r.startWidth
        newLeft == IF Includes(r.direction, "w")
                   THEN r.startLeft + (r.startWidth - newWidth)
                   ELSE r.startLeft
        newHeight == IF Includes(r.direction, "s")
                     THEN r.startHeight + deltaY
                     ELSE IF Includes(r.direction, "n")
                          THEN r.startHeight - deltaY
                          ELSE r.startHeight
        newTop == IF Includes(r.direction, "n")
                  THEN r.startTop + (r.startHeight - newHeight)
                  ELSE r.startTop
    IN  [m EXCEPT !.width = newWidth, !.height = newHeight,
                  !.left = newLeft, !.top = newTop, !.fill = FALSE]

\* onMouseMove of startResize for the gesture r
resizeOnMouseMove(m, r, x, y) ==
    LET deltaX == x - r.startX
        deltaY == y - r.startY
        newWidth == IF Includes(r.direction, "e")
                    THEN Max(MIN_WIDTH, r.startWidth + deltaX)
                    ELSE IF Includes(r.direction, "w")
                         THEN Max(MIN_WIDTH, r.startWidth - deltaX)
                         ELSE r.startWidth
        newLeft == IF Includes(r.direction, "w")
                   THEN r.startLeft + (r.startWidth - newWidth)
                   ELSE r.startLeft
        newHeight == IF Includes(r.direction, "s")
                     THEN Max(MIN_HEIGHT, r.startHeight + deltaY)
                     ELSE IF Includes(r.direction, "n")
                          THEN Max(MIN_HEIGHT, r.startHeight - deltaY)
                          ELSE r.startHeight
        newTop == IF Includes(r.direction, "n")
                  THEN r.startTop + (r.startHeight - newHeight)
                  ELSE r.startTop
    IN  [m EXCEPT !.width = newWidth, !.height = newHeight,
                  !.left = newLeft, !.top = newTop, !.fill = FALSE]

(***************************************************************************)
(* Gestures.  D is a window m together with the variables of its           *)
(* makeDraggable closure and the listeners on the document.  A listener is *)
(* [type, fn]; fn is the one onMouseMove/onMouseUp pair of makeDraggable   *)
(* (kind "drag") or the pair one startResize call created (kind "resize",  *)
(* with what the call captured).                                           *)
(***************************************************************************)
DragFn == [kind |-> "drag", id |-> 0]

SameListener(l, type, fn) ==
    l.type = type /\ l.fn.kind = fn.kind /\ l.fn.id = fn.id

\* document.addEventListener: a listener already registered for the type is
\* not added a second time
addEventListener(ls, type, fn) ==
    IF \E i \in 1..Len(ls) : SameListener(ls[i], type, fn)
    THEN ls
    ELSE Append(ls, [type |-> type, fn |-> fn])

removeEventListener(ls, type, fn) ==
    SelectSeq(ls, LAMBDA l : ~SameListener(l, type, fn))

\* the mousedown listener makeDraggable puts on the title bar
dragOnMouseDown(d, hst, x, y, onButton) ==
    IF onButton THEN d
    ELSE LET rect == getBoundingClientRect(d.m, hst)
         IN  [d EXCEPT
                !.drag = [isDragging |-> TRUE, startX |-> x, startY |-> y,
                          startLeft |-> rect.left, startTop |-> rect.top],
                !.listeners = addEventListener(
                                 addEventListener(@, "mousemove", DragFn),
                                 "mouseup", DragFn)]

\* onMouseMove of makeDraggable
dragOnMouseMove(d, x, y) ==
    IF ~d.drag.isDragging THEN d
    ELSE [d EXCEPT !.m.left = d.drag.startLeft + (x - d.drag.startX),
                   !.m.top = d.drag.startTop + (y - d.drag.startY)]

\* onMouseUp of makeDraggable
dragOnMouseUp(d) ==
    [d EXCEPT !.drag.isDragging = FALSE,
              !.listeners = removeEventListener(
                               removeEventListener(@, "mousemove", DragFn),
                               "mouseup", DragFn)]

\* startResize as the mousedown listener of a handle: the pair it creates
\* is the id-th the window's handles have created
resizeOnMouseDown(d, hst, direction, x, y, id) ==
    LET fn == [kind |-> "resize", id |-> id,
               session |-> startResize(d.m, hst, direction, x, y)]
    IN  [d EXCEPT !.listeners = addEventListener(
                                   addEventListener(@, "mousemove", fn),
                                   "mouseup", fn)]

\* onMouseUp of startResize that removes only its mouseup listener
resizeOnMouseUp_keepMove(d, fn) ==
    [d EXCEPT !.listeners = removeEventListener(@, "mouseup", fn)]

\* onMouseUp of startResize
resizeOnMouseUp(d, fn) ==
    [d EXCEPT !.listeners = removeEventListener(
                               removeEventListener(@, "mousemove", fn),
                               "mouseup", fn)]

\* one listener is called with the event
callListener(d, l, x, y) ==
    CASE l.type = "mousemove" /\ l.fn.kind = "drag" ->
            dragOnMouseMove(d, x, y)
      [] l.type = "mousemove" /\ l.fn.kind = "resize" ->
            [d EXCEPT !.m = resizeOnMouseMove(@, l.fn.session, x, y)]
      [] l.type = "mouseup" /\ l.fn.kind = "drag" ->
            dragOnMouseUp(d)
      [] l.type = "mouseup" /\ l.fn.kind = "resize" ->
            resizeOnMouseUp(d, l.fn)

RECURSIVE callListeners(_, _, _, _, _)
\* the listeners found at dispatch are called in the order they were added;
\* one removed by an earlier listener of the same dispatch is skipped
callListeners(d, found, i, x, y) ==
    IF i > Len(found) THEN d
    ELSE callListeners(
            IF \E k \in 1..Len(d.listeners) :
                   SameListener(d.listeners[k], found[i].type, found[i].fn)
            THEN callListener(d, found[i], x, y)
            ELSE d,
            found, i + 1, x, y)

\* a mousemove or mouseup reaches the document
dispatchEvent(d, type, x, y) ==
    callListeners(d, SelectSeq(d.listeners, LAMBDA l : l.type = type),
                  1, x, y)

minimize(h, w) ==
    onModalMinimized(
        [h EXCEPT !.windows[w].display = "none",
                  !.windows[w].isMinimized = TRUE],
        h.windows[w].title)

\* restore without the isMinimized test
restore_noMinimizedTest(h, w) ==
    onModalRestoredFromDock(
        [h EXCEPT !.windows[w].display = "flex",
                  !.windows[w].isMinimized = FALSE],
        h.windows[w].title)

restore(h, w) ==
    IF h.windows[w].isMinimized
    THEN onModalRestoredFromDock(
            [h EXCEPT !.windows[w].display = "flex",
                      !.windows[w].isMinimized = FALSE],
            h.windows[w].title)
    ELSE h

(***************************************************************************)
(* ModalManager                                                            *)
(***************************************************************************)
\* bringModalToFront that leaves the other windows' active flag alone
bringModalToFront_keepOthers(h, w) ==
    LET z == Max(h.nextZIndex + 1, MODAL_BASE_Z)
    IN  onModalSelected(
            [h EXCEPT !.nextZIndex = z,
                      !.windows[w].zIndex = z,
                      !.windows[w].active = TRUE,
                      !.activeModal = w],
            h.windows[w].title)

\* bringModalToFront that reuses the counter without advancing it
bringModalToFront_noIncrement(h, w) ==
    LET z == Max(h.nextZIndex, MODAL_BASE_Z)
        reg == MapValues(h.modals)
    IN  onModalSelected(
            [h EXCEPT
                !.nextZIndex = z,
                !.windows = [i \in DOMAIN h.windows |->
                    IF i = w
                    THEN [h.windows[i] EXCEPT !.zIndex = z, !.active = TRUE]
                    ELSE IF i \in reg
                         THEN [h.windows[i] EXCEPT !.active = FALSE]
                         ELSE h.windows[i]],
                !.activeModal = w],
            h.windows[w].title)

\* bringModalToFront with Math.min in place of Math.max
bringModalToFront_minBase(h, w) ==
    LET z == IF h.nextZIndex + 1 < MODAL_BASE_Z THEN h.nextZIndex + 1
             ELSE MODAL_BASE_Z
    IN  onModalSelected(
            [h EXCEPT
                !.nextZIndex = z,
                !.windows = [i \in DOMAIN h.windows |->
                    IF i = w
                    THEN [h.windows[i] EXCEPT !.zIndex = z, !.active = TRUE]
                    ELSE IF i \in MapValues(h.modals)
                         THEN [h.windows[i] EXCEPT !.active = FALSE]
                         ELSE h.windows[i]],
                !.activeModal = w],
            h.windows[w].title)

bringModalToFront(h, w) ==
    LET z == Max(h.nextZIndex + 1, MODAL_BASE_Z)
        reg == MapValues(h.modals)
    IN  onModalSelected(
            [h EXCEPT
                !.nextZIndex = z,
                !.windows = [i \in DOMAIN h.windows |->
                    IF i = w
                    THEN [h.windows[i] EXCEPT !.zIndex = z, !.active = TRUE]
                    ELSE IF i \in reg
                         THEN [h.windows[i] EXCEPT !.active = FALSE]
                         ELSE h.windows[i]],
                !.activeModal = w],
            h.windows[w].title)

createModal(h, t, width, height, left, top) ==
    LET w == Len(h.windows) + 1
    IN  bringModalToFront(
            [h EXCEPT !.windows = Append(@, NewModalWindow(t, width, height,
                                                           left, top)),
                      !.modals = MapSet(@, t, w)],
            w)

closeModal(h, w) == [h EXCEPT !.timers = Append(@, w)]

\* the close button: ModalWindow.closeModal dispatches the bubbling event
\* modalClose on the window's element; the listener createModal put on the
\* element calls closeModal, then the listener setupEventHandlers put on
\* the main container calls it again
modalCloseEvent(h, w) == closeModal(closeModal(h, w), w)

\* the setTimeout callback of closeModal(w)
closeModalTimeout(h, w) ==
    LET t  == h.windows[w].title
        h1 == [h EXCEPT !.windows[w].inDom = FALSE,
                        !.modals = MapDelete(@, t)]
        h2 == IF h1.activeModal = w
              THEN LET h3 == [h1 EXCEPT !.activeModal = 0]
                   IN  IF Len(h3.modals) > 0
                       THEN bringModalToFront(h3,
                                h3.modals[Len(h3.modals)].id)
                       ELSE h3
              ELSE h1
    IN  onModalClosed(h2, t)

ModalIds(m) == [i \in 1..Len(m) |-> m[i].id]

RECURSIVE minimizeEach(_, _, _)
\* modal.minimize() for ids[i..] in order
minimizeEach(h, ids, i) ==
    IF i > Len(ids) THEN h ELSE minimizeEach(minimize(h, ids[i]), ids, i + 1)

RECURSIVE restoreEach(_, _, _)
\* modal.restore() for ids[i..] in order
restoreEach(h, ids, i) ==
    IF i > Len(ids) THEN h ELSE restoreEach(restore(h, ids[i]), ids, i + 1)

RECURSIVE closeEach(_, _, _)
\* this.closeModal(modal) for ids[i..] in order
closeEach(h, ids, i) ==
    IF i > Len(ids) THEN h ELSE closeEach(closeModal(h, ids[i]), ids, i + 1)

minimizeAllModals(h) == minimizeEach(h, ModalIds(h.modals), 1)

restoreAllModals(h) == restoreEach(h, ModalIds(h.modals), 1)

closeAllModals(h) == closeEach(h, ModalIds(h.modals), 1)

\* resetModalZIndexes that walks the Map from its last entry to its first
resetModalZIndexes_reversed(h) ==
    [h EXCEPT
        !.windows = [i \in DOMAIN h.windows |->
            IF i \in MapValues(h.modals)
            THEN [h.windows[i] EXCEPT
                    !.zIndex = RESET_BASE_Z + Len(h.modals) -
                        (CHOOSE k \in 1..Len(h.modals) :
                            h.modals[k].id = i)]
            ELSE h.windows[i]],
        !.nextZIndex = RESET_BASE_Z + Len(h.modals)]

\* resetModalZIndexes that never advances zIndex inside the loop
resetModalZIndexes_noStep(h) ==
    [h EXCEPT
        !.windows = [i \in DOMAIN h.windows |->
            IF i \in MapValues(h.modals)
            THEN [h.windows[i] EXCEPT !.zIndex = RESET_BASE_Z]
            ELSE h.windows[i]],
        !.nextZIndex = RESET_BASE_Z]

resetModalZIndexes(h) ==
    [h EXCEPT
        !.windows = [i \in DOMAIN h.windows |->
            IF i \in MapValues(h.modals)
            THEN [h.windows[i] EXCEPT
                    !.zIndex = RESET_BASE_Z +
                        (CHOOSE k \in 1..Len(h.modals) :
                            h.modals[k].id = i) - 1]
            ELSE h.windows[i]],
        !.nextZIndex = RESET_BASE_Z + Len(h.modals)]

\* restoreModalByTitle without the isModalMinimized() test
restoreModalByTitle_noMinimizedTest(h, t) ==
    LET w == MapGet(h.modals, t)
    IN  IF w # 0
        THEN onModalRestoredFromDock(
                bringModalToFront(restore(h, w), w), t)
        ELSE h

restoreModalByTitle(h, t) ==
    LET w == MapGet(h.modals, t)
    IN  IF w # 0 /\ h.windows[w].isMinimized
        THEN onModalRestoredFromDock(
                bringModalToFront(restore(h, w), w), t)
        ELSE h

\* clearActiveModal that forgets to clear this.activeModal
clearActiveModal_keepActiveModal(h) ==
    onModalSelected(
        [h EXCEPT
            !.windows = [i \in DOMAIN h.windows |->
                IF i \in MapValues(h.modals)
                THEN [h.windows[i] EXCEPT !.active = FALSE]
                ELSE h.windows[i]]],
        "")

clearActiveModal(h) ==
    onModalSelected(
        [h EXCEPT
            !.windows = [i \in DOMAIN h.windows |->
                IF i \in MapValues(h.modals)
                THEN [h.windows[i] EXCEPT !.active = FALSE]
                ELSE h.windows[i]],
            !.activeModal = 0],
        "")

(***************************************************************************)
(* TitleBarManager: the tab strip, the app icon and the animations         *)
(***************************************************************************)
\* DOMUtils.getAllModals: the elements with data-dialog-title in the
\* content area, in document order
getAllModals(h) ==
    SelectSeq([i \in 1..Len(h.windows) |-> i],
              LAMBDA i : h.windows[i].inDom)

\* DOMUtils.getModalByTitle: querySelector gives the first match, 0 is null
getModalByTitle(h, title) ==
    LET found == SelectSeq(getAllModals(h),
                           LAMBDA i : h.windows[i].title = title)
    IN  IF found = <<>> THEN 0 ELSE found[1]

\* the tab createModalTab builds: its two flags stay in the closure of its
\* click listener
createModalTab(title, isActive, isMinimized) ==
    [title |-> title, isActive |-> isActive, isMinimized |-> isMinimized]

updateModalTabs(h) ==
    LET allModals == getAllModals(h)
    IN  [h EXCEPT !.modalTabs =
            [k \in 1..Len(allModals) |->
                LET modal == h.windows[allModals[k]]
                IN  createModalTab(modal.title,
                                   modal.active
                                       \/ modal.title = h.activeModalTitle,
                                   modal.display = "none")]]

\* the setTimeout callback of updateModalTabsDebounced
updateModalTabsTimeout(h) == updateModalTabs([h EXCEPT !.tabsTimer = FALSE])

\* a dispatched mousedown reaches the listener createModal put on the
\* element
selectModalByTitle(h, title) ==
    LET targetModal == getModalByTitle(h, title)
    IN  IF targetModal # 0 THEN bringModalToFront(h, targetModal) ELSE h

\* nothing listens for the modalRestored event it dispatches
restoreModalFromDock(h, modalTitle) ==
    LET targetModal == getModalByTitle(h, modalTitle)
    IN  IF targetModal # 0 /\ h.windows[targetModal].display = "none"
        THEN [h EXCEPT !.windows[targetModal].display = "block",
                       !.animations = Append(@, [kind |-> "restoreFromDock",
                                                 w |-> targetModal])]
        ELSE h

\* the then() of the animation restoreModalFromDock starts
restoreModalFromDockThen(h, w) ==
    updateActiveModal([h EXCEPT !.windows[w].active = TRUE],
                      h.windows[w].title)

\* the click listener of the k-th tab
tabClick(h, k) ==
    IF h.modalTabs[k].isMinimized
    THEN restoreModalFromDock(h, h.modalTabs[k].title)
    ELSE selectModalByTitle(h, h.modalTabs[k].title)

\* nothing listens for the modalMinimized event it dispatches
minimizeModalToDock(h, w) ==
    [h EXCEPT !.windows[w].active = FALSE,
              !.animations = Append(@, [kind |-> "minimizeToDock",
                                        w |-> w])]

\* the then() of the animation minimizeModalToDock starts
minimizeModalToDockThen(h, w) == [h EXCEPT !.windows[w].display = "none"]

RECURSIVE minimizeEachToDock(_, _, _)
\* this.minimizeModalToDock(modal) for ids[i..] in order
minimizeEachToDock(h, ids, i) ==
    IF i > Len(ids) THEN h
    ELSE minimizeEachToDock(minimizeModalToDock(h, ids[i]), ids, i + 1)

\* TitleBarManager.minimizeAllModals
titleBarMinimizeAllModals(h) ==
    updateModalTabsDebounced(
        [minimizeEachToDock(h, getAllModals(h), 1)
            EXCEPT !.activeModalTitle = ""])

\* the click listener of the app icon; the brandingReset event it
\* dispatches reaches ModalManager.clearActiveModal
appIconClick(h) ==
    clearActiveModal(resetToDefaultBranding(titleBarMinimizeAllModals(h)))

\* the click listener of the main container, for a click on the content
\* area itself
backgroundClick(h) == clearActiveModal(resetToDefaultBranding(h))

closeActiveModal(h) ==
    IF h.activeModal # 0 THEN closeModal(h, h.activeModal) ELSE h

(***************************************************************************)
(* Launchpad.  A string the code inspects character by character is a     *)
(* sequence of one-character strings; Characters spells out the titles of *)
(* the catalog.                                                            *)
(***************************************************************************)
UpperCase ==
    <<"A", "B", "C", "D", "E", "F", "G", "H", "I", "J", "K", "L", "M", "N", "O", "P", "Q", "R", "S", "T", "U", "V", "W", "X", "Y", "Z">>
LowerCase ==
    <<"a", "b", "c", "d", "e", "f", "g", "h", "i", "j", "k", "l", "m", "n", "o", "p", "q", "r", "s", "t", "u", "v", "w", "x", "y", "z">>

\* the lower-case letter of each upper-case letter
LowerCaseOf ==
    [c \in {UpperCase[k] : k \in 1..26} |->
        LowerCase[CHOOSE k \in 1..26 : UpperCase[k] = c]]

\* String.prototype.toLowerCase
toLowerCase(str) ==
    [i \in 1..Len(str) |->
        IF str[i] \in DOMAIN LowerCaseOf THEN LowerCaseOf[str[i]]
        ELSE str[i]]

WhiteSpace == {" ", "\t"}

RECURSIVE trimStart(_)
trimStart(str) ==
    IF str # <<>> /\ Head(str) \in WhiteSpace THEN trimStart(Tail(str))
    ELSE str

RECURSIVE trimEnd(_)
trimEnd(str) ==
    IF str # <<>> /\ str[Len(str)] \in WhiteSpace
    THEN trimEnd(SubSeq(str, 1, Len(str) - 1))
    ELSE str

\* String.prototype.trim
trim(str) == trimEnd(trimStart(str))

\* String.prototype.includes
includes(str, search) ==
    \E i \in 1..(Len(str) + 1) :
        /\ i + Len(search) - 1 <= Len(str)
        /\ SubSeq(str, i, i + Len(search) - 1) = search

\* Launchpad.initializeModalDefinitions
modalDefinitions ==
    <<
      [title |-> "HELLO Dialog", width |-> 600, height |-> 400],
      [title |-> "Small Window", width |-> 400, height |-> 300],
      [title |-> "Large Window", width |-> 800, height |-> 600],
      [title |-> "Settings", width |-> 500, height |-> 400],
      [title |-> "File Manager", width |-> 700, height |-> 500],
      [title |-> "Terminal", width |-> 600, height |-> 400],
      [title |-> "Calculator", width |-> 300, height |-> 400],
      [title |-> "Text Editor", width |-> 650, height |-> 450]
    >>

\* the characters of each catalog title
Characters ==
    "HELLO Dialog" :> <<"H", "E", "L", "L", "O", " ", "D", "i", "a", "l", "o", "g">> @@
    "Small Window" :> <<"S", "m", "a", "l", "l", " ", "W", "i", "n", "d", "o", "w">> @@
    "Large Window" :> <<"L", "a", "r", "g", "e", " ", "W", "i", "n", "d", "o", "w">> @@
    "Settings" :> <<"S", "e", "t", "t", "i", "n", "g", "s">> @@
    "File Manager" :> <<"F", "i", "l", "e", " ", "M", "a", "n", "a", "g", "e", "r">> @@
    "Terminal" :> <<"T", "e", "r", "m", "i", "n", "a", "l">> @@
    "Calculator" :> <<"C", "a", "l", "c", "u", "l", "a", "t", "o", "r">> @@
    "Text Editor" :> <<"T", "e", "x", "t", " ", "E", "d", "i", "t", "o", "r">>

\* filterModals that compares the title as written
filterModals_caseSensitive(value) ==
    LET searchTerm == trim(toLowerCase(value))
    IN  IF searchTerm = <<>>
        THEN modalDefinitions
        ELSE SelectSeq(modalDefinitions,
                       LAMBDA modal :
                           includes(Characters[modal.title], searchTerm))

\* Launchpad.filterModals: the new filteredModals for searchInput.value
filterModals(value) ==
    LET searchTerm == trim(toLowerCase(value))
    IN  IF searchTerm = <<>>
        THEN modalDefinitions
        ELSE SelectSeq(modalDefinitions,
                       LAMBDA modal :
                           includes(toLowerCase(Characters[modal.title]),
                                    searchTerm))

\* DOMUtils.calculateRandomModalPosition, Math.random() being
\* randomX / 100 and randomY / 100
calculateRandomModalPosition(width, height, inner, randomX, randomY) ==
    LET maxLeft == Max(50, inner.width - width - 50)
        maxTop == Max(50, inner.height - height - 100)
    IN  [left |-> (randomX * maxLeft) \div 100 + 50,
         top |-> (randomY * maxTop) \div 100 + 50]

\* the launchpad and the key listeners' closure variables as one record
Pad ==
    [isVisible |-> isVisible, display |-> launchpadDisplay,
     value |-> searchValue, filtered |-> filteredModals,
     timers |-> launchTimers, metaKeyPressed |-> metaKeyPressed,
     metaKeyTimeout |-> metaKeyTimeout]

\* Launchpad.show
show(p) == [p EXCEPT !.isVisible = TRUE, !.display = "flex"]

\* Launchpad.hide: the 200 ms timer runs after every timer already pending
hide(p) ==
    [p EXCEPT !.isVisible = FALSE,
              !.timers = Append(@, [kind |-> "hide", id |-> 0])]

\* Launchpad.toggle
toggle(p) == IF p.isVisible THEN hide(p) ELSE show(p)

\* the setTimeout callback of Launchpad.hide
hideTimeout(p) ==
    [p EXCEPT !.display = "none", !.value = <<>>,
              !.filtered = modalDefinitions]

\* clearTimeout(id): the pending timer with that id, if any, never runs
clearTimeout(p, id) ==
    [p EXCEPT !.timers = SelectSeq(@, LAMBDA t : t.id # id \/ id = 0)]

\* the id setTimeout returns: one that no pending timer and no variable
\* still holds
FreshTimerId(p) ==
    CHOOSE n \in 1..(Len(p.timers) + 2) :
        /\ n # p.metaKeyTimeout
        /\ \A i \in 1..Len(p.timers) : p.timers[i].id # n
        /\ \A k \in 1..(n - 1) :
              \/ k = p.metaKeyTimeout
              \/ \E i \in 1..Len(p.timers) : p.timers[i].id = k

\* the document keydown listener of CustomUIManager.setupEventHandlers
keydown(p, key) ==
    IF key = "F4" THEN toggle(p)
    ELSE IF key = "Meta"
    THEN IF ~p.metaKeyPressed
         THEN LET id == FreshTimerId(p)
              IN  [p EXCEPT !.metaKeyPressed = TRUE,
                            !.metaKeyTimeout = id,
                            !.timers = Append(@, [kind |-> "metaKey",
                                                  id |-> id])]
         ELSE p
    ELSE IF p.metaKeyPressed THEN clearTimeout(p, p.metaKeyTimeout)
    ELSE p

\* the callback with the visibility test inverted
metaKeyTimeoutCallback_visibleTest(p) ==
    IF p.metaKeyPressed /\ p.isVisible THEN show(p) ELSE p

\* the setTimeout callback of the keydown listener
metaKeyTimeoutCallback(p) ==
    IF p.metaKeyPressed /\ ~p.isVisible THEN show(p) ELSE p

\* the document keyup listener of CustomUIManager.setupEventHandlers
keyup(p, key) ==
    IF key = "Meta"
    THEN clearTimeout([p EXCEPT !.metaKeyPressed = FALSE], p.metaKeyTimeout)
    ELSE p

\* where a 50 ms timer can come among the pending ones: before or after
\* any 200 ms timer, after every 50 ms timer
WindowsKeyPositions(q) ==
    {pos \in 0..Len(q) :
        \A i \in (pos + 1)..Len(q) : q[i].kind # "windowsKey"}

\* the keydown listener installed on Windows, for keyCode 91 or 92 with
\* neither Ctrl, Alt nor Shift (with one of them the timer's callback does
\* nothing): its timer becomes the one after the first pos pending timers
windowsKeydown(p, pos) ==
    [p EXCEPT !.timers = SubSeq(@, 1, pos)
                         \o <<[kind |-> "windowsKey", id |-> 0]>>
                         \o SubSeq(@, pos + 1, Len(@))]

\* the listener without the isVisible test
launchpadKeydown_noVisibleTest(p, key) ==
    IF key = "Escape" THEN hide(p) ELSE p

\* the document keydown listener of Launchpad.setupEventHandlers
launchpadKeydown(p, key) ==
    IF p.isVisible /\ key = "Escape" THEN hide(p) ELSE p

\* the click listener of the overlay; onOverlay: event.target is the
\* overlay itself, not an element inside it
launchpadClick(p, onOverlay) ==
    IF onOverlay THEN hide(p) ELSE p

\* CustomUIManager.handleMenuAction on the registry h and the launchpad p
handleMenuAction(h, p, action) ==
    CASE action = "New Window" -> [heap |-> h, pad |-> show(p)]
      [] action = "Close Window" -> [heap |-> closeActiveModal(h), pad |-> p]
      [] action = "Minimize All" ->
            [heap |-> minimizeAllModals(h), pad |-> p]
      [] action = "Restore All" -> [heap |-> restoreAllModals(h), pad |-> p]
      [] action = "Bring All to Front" ->
            [heap |-> resetModalZIndexes(h), pad |-> p]
      [] action = "Close All" -> [heap |-> closeAllModals(h), pad |-> p]
      [] OTHER -> [heap |-> h, pad |-> p]

\* the buttons createMenuItems puts on the title bar
MenuItems == {"File", "Edit", "View", "Window", "Help"}

\* the click listener of the button item: menuActionCallback is given
\* { menu: item, action: 'clicked' }
menuItemAction(item) == "clicked"

(***************************************************************************)
(* Actions of the registry specification                                   *)
(***************************************************************************)
StoreHeap(h, op, w) ==
    /\ steps' = steps + 1
    /\ windows' = h.windows
    /\ modals' = h.modals
    /\ nextZIndex' = h.nextZIndex
    /\ activeModal' = h.activeModal
    /\ timers' = h.timers
    /\ minimizedModals' = h.minimizedModals
    /\ emitted' = h.emitted
    /\ brandingText' = h.brandingText
    /\ activeModalTitle' = h.activeModalTitle
    /\ tabsTimer' = h.tabsTimer
    /\ modalTabs' = h.modalTabs
    /\ animations' = h.animations
    /\ lastOp' = [op |-> op, w |-> w]
    /\ afterCloseAll' = \/ op = "closeAllModals"
                        \/ op = "closeModalTimeout" /\ afterCloseAll

Store(h, op, w) ==
    /\ steps < MaxSteps
    /\ StoreHeap(h, op, w)
    /\ UNCHANGED <<geomVars, launchVars, keyVars, menuAction>>

\* Titles are interchangeable, so a behaviour takes them from the pool in
\* order: a call names a title already used or the first unused one.
Titles ==
    LET used == Cardinality({windows[i].title : i \in DOMAIN windows})
    IN  {TitlePool[i] : i \in 1..(IF used < MaxTitles THEN used + 1
                                                       ELSE MaxTitles)}

\* the elements a user or a caller can still reach
InDom == {w \in DOMAIN windows : windows[w].inDom}

\* Scenario A's first window: the geometry plays no part in the registry
DefaultBox == [width |-> 600, height |-> 400, left |-> 100, top |-> 100]

CreateModal(t) ==
    Store(createModal(Heap, t, DefaultBox.width, DefaultBox.height,
                      DefaultBox.left, DefaultBox.top),
          "createModal", Len(windows) + 1)

BringModalToFront(w) ==
    /\ w \in InDom
    /\ Store(bringModalToFront(Heap, w), "bringModalToFront", w)

\* the minimize button of a window on screen
Minimize(w) ==
    /\ w \in InDom
    /\ windows[w].display # "none"
    /\ Store(minimize(Heap, w), "minimize", w)

CloseModal(w) ==
    /\ w \in InDom
    /\ Store(modalCloseEvent(Heap, w), "closeModal", w)

CloseModalTimeout ==
    /\ timers # <<>>
    /\ Store(closeModalTimeout([Heap EXCEPT !.timers = Tail(@)],
                               Head(timers)),
             "closeModalTimeout", Head(timers))

MinimizeAllModals ==
    Store(minimizeAllModals(Heap), "minimizeAllModals", 0)

RestoreAllModals ==
    Store(restoreAllModals(Heap), "restoreAllModals", 0)

CloseAllModals ==
    Store(closeAllModals(Heap), "closeAllModals", 0)

ResetModalZIndexes ==
    Store(resetModalZIndexes(Heap), "resetModalZIndexes", 0)

RestoreModalByTitle(t) ==
    Store(restoreModalByTitle(Heap, t), "restoreModalByTitle", 0)

ClearActiveModal ==
    Store(clearActiveModal(Heap), "clearActiveModal", 0)

NoTrail == [count |-> 0, before |-> <<>>]

\* window.innerWidth and window.innerHeight
Viewport == [width |-> 1000, height |-> 735]

\* the content area (position: relative, height: calc(100vh - 35px)) below
\* the title bar of a container whose corner is at (cl, ct)
ContentArea(cl, ct) ==
    [left |-> cl, top |-> ct + TITLE_BAR_HEIGHT,
     width |-> Viewport.width, height |-> Viewport.height - TITLE_BAR_HEIGHT]

\* no gesture has begun: makeDraggable's variables as declared, no
\* listener on the document
DragIdle ==
    /\ dragState = [isDragging |-> FALSE, startX |-> 0, startY |-> 0,
                    startLeft |-> 0, startTop |-> 0]
    /\ documentListeners = <<>>
    /\ mouse = [x |-> 0, y |-> 0, ran |-> 0]

GeomIdle ==
    /\ host = ContentArea(0, 0)
    /\ resizeSessions = <<>>
    /\ toggleTrail = NoTrail
    /\ DragIdle

\* the state after the Launchpad constructor
LaunchInit ==
    /\ isVisible = FALSE
    /\ launchpadDisplay = "none"
    /\ searchValue = <<>>
    /\ filteredModals = modalDefinitions
    /\ launchTimers = <<>>

\* no key is down and no key listener has run; a specification without
\* key events is the same on every platform
KeysIdle ==
    /\ metaKeyPressed = FALSE
    /\ metaKeyTimeout = 0
    /\ platformWin = FALSE
    /\ interrupted = FALSE

RegInit ==
    /\ windows = <<>>
    /\ modals = <<>>
    /\ nextZIndex = INITIAL_NEXT_Z
    /\ activeModal = 0
    /\ timers = <<>>
    /\ minimizedModals = <<>>
    /\ emitted = <<>>
    /\ lastOp = [op |-> "init", w |-> 0]
    /\ afterCloseAll = FALSE
    /\ steps = 0

\* the state after TitleBarManager.createTitleBar
BarInit ==
    /\ brandingText = DefaultBranding
    /\ activeModalTitle = ""
    /\ tabsTimer = FALSE
    /\ modalTabs = <<>>
    /\ animations = <<>>
    /\ menuAction = ""

vars == <<regVars, geomVars, launchVars, keyVars, barVars>>

Init == RegInit /\ GeomIdle /\ LaunchInit /\ KeysIdle /\ BarInit

Next ==
    \/ \E t \in Titles : CreateModal(t)
    \/ \E w \in DOMAIN windows : BringModalToFront(w)
    \/ \E w \in DOMAIN windows : Minimize(w)
    \/ \E w \in DOMAIN windows : CloseModal(w)
    \/ CloseModalTimeout
    \/ MinimizeAllModals
    \/ RestoreAllModals
    \/ CloseAllModals
    \/ ResetModalZIndexes
    \/ \E t \in Titles : RestoreModalByTitle(t)
    \/ ClearActiveModal

Spec == Init /\ [][Next]_vars

(***************************************************************************)
(* Properties of the registry specification                                *)
(***************************************************************************)
Registered == MapValues(modals)
DockTitles == {minimizedModals[i] : i \in 1..Len(minimizedModals)}
SetMax(S) == CHOOSE x \in S : \A y \in S : y <= x

\* C1: at most one registered window has active = true, and a registered
\* window that is active is the one ModalManager.activeModal records.
C1_SingleActive ==
    /\ Cardinality({w \in Registered : windows[w].active}) <= 1
    /\ \A w \in Registered : windows[w].active => activeModal = w

\* the close fallback has just activated one of several registered windows
C1_Witness ==
    /\ lastOp.op = "closeModalTimeout"
    /\ Cardinality(Registered) >= 2
    /\ activeModal \in Registered
    /\ windows[activeModal].active

\* C2: the dock's entry set is exactly the set of titles of the registered
\* windows that are minimized.
C2_DockMatchesMinimized ==
    DockTitles = {windows[w].title : w \in {v \in Registered :
                                              windows[v].isMinimized}}

\* C3: right after bringModalToFront(w), called directly or by createModal
\* for the new window, w is active and its zIndex is strictly greater than
\* the zIndex of every other registered window.
C3_FocusOnTop ==
    lastOp.op \in {"bringModalToFront", "createModal"} =>
        /\ activeModal = lastOp.w
        /\ windows[lastOp.w].active
        /\ \A v \in Registered \ {lastOp.w} :
                windows[lastOp.w].zIndex > windows[v].zIndex

\* a window was focused while another registered window still carries the
\* first z-index resetModalZIndexes hands out
C3_Witness ==
    /\ lastOp.op = "bringModalToFront"
    /\ lastOp.w \in Registered
    /\ \E v \in Registered \ {lastOp.w} : windows[v].zIndex = RESET_BASE_Z

\* C7: after closeAllModals, once every pending close timer has fired, the
\* registry holds no window and the dock holds no entry.
C7_CloseAllEmpties ==
    (afterCloseAll /\ timers = <<>>) =>
        (modals = <<>> /\ minimizedModals = <<>>)

\* C8: when the close timer of w runs and w is the active window, the most
\* recently created window left in the registry becomes active through
\* bringModalToFront; when w is not the active window, the active window
\* stays as it was.
C8_CloseFallback ==
    [][(lastOp'.op = "closeModalTimeout" /\ steps' = steps + 1) =>
        IF activeModal = lastOp'.w
        THEN modals' # <<>> =>
                /\ activeModal' = SetMax(MapValues(modals'))
                /\ windows'[activeModal'].active
                /\ windows'[activeModal'].zIndex = nextZIndex'
                /\ nextZIndex' = nextZIndex + 1
        ELSE activeModal' = activeModal]_vars

\* C9: minimizing a window puts its title in the dock, and activating that
\* dock entry leaves the window not minimized, active, above every other
\* registered window, and without a dock entry.
C9_DockRoundTrip ==
    [][/\ \A w \in DOMAIN windows :
            Minimize(w) => windows[w].title \in DockTitles'
       /\ \A t \in DockTitles : \A w \in InDom :
            (/\ RestoreModalByTitle(t)
             /\ windows[w].title = t
             /\ windows[w].isMinimized) =>
                /\ ~windows'[w].isMinimized
                /\ windows'[w].active
                /\ activeModal' = w
                /\ \A v \in MapValues(modals') \ {w} :
                        windows'[w].zIndex > windows'[v].zIndex
                /\ t \notin DockTitles']_vars

\* C10: restoreModalByTitle(t) with t not registered, or registered for a
\* window that is not minimized, changes nothing and notifies nobody.
C10_RestoreByTitleNoOp ==
    [][\A t \in Titles :
        (/\ RestoreModalByTitle(t)
         /\ \/ ~MapHas(modals, t)
            \/ ~windows[MapGet(modals, t)].isMinimized) =>
            /\ UNCHANGED <<windows, modals, nextZIndex, activeModal,
                           timers, minimizedModals>>
            /\ emitted' = <<>>]_vars

\* restoreModalByTitle returned without effect although windows are
\* registered and the dock has an entry
C10_Witness ==
    /\ lastOp.op = "restoreModalByTitle"
    /\ emitted = <<>>
    /\ modals # <<>>
    /\ minimizedModals # <<>>

\* C11: a registered window leaves the registry only in the close timer of
\* a closeModal of that very window; createModal with any title and every
\* other operation leave each registered window registered.
C11_RemovedOnlyByClose ==
    [][\A w \in Registered :
        w \notin MapValues(modals') =>
            (lastOp'.op = "closeModalTimeout" /\ lastOp'.w = w)]_vars

\* C13: no two registered windows have the same zIndex.
C13_ZIndexUnique ==
    \A v, w \in Registered :
        v # w => windows[v].zIndex # windows[w].zIndex

\* several registered windows were renumbered by resetModalZIndexes and one
\* of them was focused afterwards
C13_Witness ==
    /\ lastOp.op = "bringModalToFront"
    /\ Cardinality(Registered) >= 3
    /\ \E v \in Registered : windows[v].zIndex = RESET_BASE_Z
    /\ \E v \in Registered : windows[v].zIndex = RESET_BASE_Z + 1

\* C14 as claimed: nextZIndex never decreases, whatever the operation,
\* resetModalZIndexes included.
C14_CounterMonotone ==
    [][nextZIndex' >= nextZIndex]_vars

\* C14 as amended: nextZIndex never decreases across any operation other
\* than resetModalZIndexes, which sets it to RESET_BASE_Z plus the number
\* of registered windows.
C14_CounterMonotoneButReset ==
    [][IF lastOp'.op = "resetModalZIndexes" /\ steps' = steps + 1
       THEN nextZIndex' = RESET_BASE_Z + Len(modals)
       ELSE nextZIndex' >= nextZIndex]_vars

\* resetModalZIndexes has just lowered the counter
C14_Witness ==
    /\ lastOp.op = "resetModalZIndexes"
    /\ modals # <<>>
    /\ nextZIndex < INITIAL_NEXT_Z + Len(windows)

\* C15: minimize() on a window that is already minimized, as
\* minimizeAllModals calls it, is a no-op: the window and the dock are
\* unchanged and no minimized notification is delivered for it.
C15_MinimizeIdempotent ==
    [][(lastOp'.op = "minimizeAllModals" /\ steps' = steps + 1) =>
        \A w \in Registered :
            windows[w].isMinimized =>
                /\ windows'[w] = windows[w]
                /\ (Registered = {w} => minimizedModals' = minimizedModals)
                /\ \A i \in DOMAIN emitted' :
                        emitted'[i] # [kind |-> "minimized",
                                       title |-> windows[w].title]]_vars

\* C24: resetModalZIndexes gives the registered windows the z-indices 1000,
\* 1001, ... in the Map's order and resumes the counter from the greatest
\* of them (the counter is that value or the one after it), so that a
\* bringModalToFront(w) that follows gives w a z-index above every z-index
\* the reset assigned.
C24_ResetSequential ==
    [][/\ (lastOp'.op = "resetModalZIndexes" /\ steps' = steps + 1) =>
            /\ \A k \in 1..Len(modals') :
                  windows'[modals'[k].id].zIndex = RESET_BASE_Z + k - 1
            /\ modals' # <<>> =>
                  nextZIndex' \in {RESET_BASE_Z + Len(modals') - 1,
                                   RESET_BASE_Z + Len(modals')}
       /\ (/\ lastOp.op = "resetModalZIndexes"
           /\ lastOp'.op = "bringModalToFront"
           /\ steps' = steps + 1) =>
            \A k \in 1..Len(modals) :
                windows'[lastOp'.w].zIndex > RESET_BASE_Z + k - 1]_vars

C24_Witness ==
    /\ lastOp.op = "bringModalToFront"
    /\ Len(modals) = 2
    /\ lastOp.w = modals[1].id
    /\ windows[lastOp.w].zIndex = RESET_BASE_Z + Len(modals) + 1
    /\ \E k \in 1..Len(modals) :
          /\ modals[k].id # lastOp.w
          /\ windows[modals[k].id].zIndex = RESET_BASE_Z + k - 1

C26_BulkMinimizeRestore ==
    [][/\ (lastOp'.op = "minimizeAllModals" /\ steps' = steps + 1) =>
            \A w \in Registered :
                /\ windows'[w].isMinimized
                /\ Cardinality({i \in DOMAIN minimizedModals' :
                        minimizedModals'[i] = windows[w].title}) = 1
       /\ (lastOp'.op = "restoreAllModals" /\ steps' = steps + 1) =>
            /\ \A w \in Registered : ~windows'[w].isMinimized
            /\ minimizedModals' = <<>>
       /\ (/\ lastOp'.op \in {"minimizeAllModals", "restoreAllModals"}
           /\ steps' = steps + 1) =>
            /\ modals' = modals
            /\ activeModal' = activeModal
            /\ DOMAIN windows' = DOMAIN windows
            /\ \A w \in DOMAIN windows :
                  windows'[w].zIndex = windows[w].zIndex]_vars

\* C27: on every dock the program reaches and for every title,
\* addMinimizedModal applied twice gives the entries and the order it gives
\* applied once, removeModal applied twice gives what it gives applied
\* once, and removeModal of a title without an entry leaves the entries
\* unchanged.
C27_DockIdempotent ==
    \A i \in 1..MaxTitles :
        LET t == TitlePool[i]
            d == minimizedModals
        IN  /\ addMinimizedModal(addMinimizedModal(d, t), t)
                 = addMinimizedModal(d, t)
            /\ removeModal(removeModal(d, t), t) = removeModal(d, t)
            /\ (\A k \in 1..Len(d) : d[k] # t) => removeModal(d, t) = d
            /\ Cardinality({k \in 1..Len(d) : d[k] = t}) <= 1

C27_Witness ==
    /\ lastOp.op = "minimizeAllModals"
    /\ Len(minimizedModals) = 2
    /\ Len(emitted) = 2
    /\ \E w \in Registered : windows[w].zIndex < nextZIndex - 1

\* C34: when the close timer of a window w runs, every other registered
\* window stays registered, and one that is minimized with a dock entry
\* keeps the entry; in particular a window created under w's title between
\* closeModal(w) and the timer.
C34_CloseRemovesOnlyTarget ==
    [][(lastOp'.op = "closeModalTimeout" /\ steps' = steps + 1) =>
        \A w \in Registered \ {lastOp'.w} :
            /\ w \in MapValues(modals')
            /\ (windows[w].isMinimized /\ windows[w].title \in DockTitles)
                => windows[w].title \in
                     {minimizedModals'[i] : i \in 1..Len(minimizedModals')}]_vars

\* C36: whenever activeModal is defined, the window it names is the value
\* the modals Map holds under that window's title.
C36_ActiveIsRegistered ==
    activeModal # 0 =>
        MapGet(modals, windows[activeModal].title) = activeModal

\* C37: the active window is never minimized.
C37_ActiveNotMinimized ==
    activeModal # 0 => ~windows[activeModal].isMinimized

\* C39: one click on a window's close button starts exactly one close of
\* the window, every close timer delivers exactly one closed(title), and a
\* restoreModalByTitle that restores a minimized window delivers exactly one
\* restored(title).
C39_NotifiedOnce ==
    [][/\ (lastOp'.op = "closeModal" /\ steps' = steps + 1)
            => Len(timers') = Len(timers) + 1
       /\ (lastOp'.op = "closeModalTimeout" /\ steps' = steps + 1)
            => Cardinality({i \in 1..Len(emitted') :
                              emitted'[i].kind = "closed"}) = 1
       /\ (lastOp'.op = "restoreModalByTitle" /\ steps' = steps + 1)
            => \A w \in Registered :
                 (windows[w].isMinimized /\ ~windows'[w].isMinimized)
                    => Cardinality({i \in 1..Len(emitted') :
                           emitted'[i] = [kind |-> "restored",
                                          title |-> windows[w].title]}) = 1]_vars


(***************************************************************************)
(* The geometry specification: one ModalWindow on the content area, its    *)
(* maximize button, its resize handles and the document's mouse events.    *)
(***************************************************************************)
\* catalog sizes (Calculator, Small Window) at positions
\* calculateRandomModalPosition can return
InitialBoxes ==
    {[width |-> 300, height |-> 400, left |-> 50, top |-> 50],
     [width |-> 400, height |-> 300, left |-> 120, top |-> 50]}
\* where the container given to CustomUIManager sits in the viewport
ContainerLefts == {0, 20}
ContainerTops == {0, 20}
\* clientX / clientY of mousedown and of mousemove
PressCoords == {150}
MoveCoords == {0, 150, 300}

EmptyHeap == [windows |-> <<>>, modals |-> <<>>,
              nextZIndex |-> INITIAL_NEXT_Z, activeModal |-> 0,
              timers |-> <<>>, minimizedModals |-> <<>>, emitted |-> <<>>,
              brandingText |-> DefaultBranding, activeModalTitle |-> "",
              tabsTimer |-> FALSE, modalTabs |-> <<>>, animations |-> <<>>]

Geometry(m) == [width |-> m.width, height |-> m.height,
                left |-> m.left, top |-> m.top, fill |-> m.fill]

\* the state after createModal for one window on a content area
GeomInit ==
    \E box \in InitialBoxes, cl \in ContainerLefts, ct \in ContainerTops :
        LET h == createModal(EmptyHeap, TitlePool[1], box.width, box.height,
                             box.left, box.top)
        IN  /\ windows = h.windows
            /\ modals = h.modals
            /\ nextZIndex = h.nextZIndex
            /\ activeModal = h.activeModal
            /\ timers = h.timers
            /\ minimizedModals = h.minimizedModals
            /\ emitted = h.emitted
            /\ brandingText = h.brandingText
            /\ activeModalTitle = h.activeModalTitle
            /\ tabsTimer = h.tabsTimer
            /\ modalTabs = h.modalTabs
            /\ animations = h.animations
            /\ menuAction = ""
            /\ lastOp = [op |-> "createModal", w |-> 1]
            /\ afterCloseAll = FALSE
            /\ steps = 0
            /\ host = ContentArea(cl, ct)
            /\ resizeSessions = <<>>
            /\ toggleTrail = NoTrail
            /\ DragIdle
            /\ LaunchInit
            /\ KeysIdle

StoreGeom(h, op) ==
    /\ steps < MaxGeomSteps
    /\ StoreHeap(h, op, 1)
    /\ UNCHANGED <<host, launchVars, keyVars, menuAction, dragVars>>

\* click on the maximize button
GeomToggleMaximize ==
    /\ windows[1].display # "none"
    /\ StoreGeom([Heap EXCEPT !.windows[1] = toggleMaximize(@, host)],
                 "toggleMaximize")
    /\ toggleTrail' =
        IF toggleTrail.count = 1
        THEN [toggleTrail EXCEPT !.count = 2]
        ELSE IF ~windows[1].isMaximized
             THEN [count |-> 1, before |-> <<Geometry(windows[1])>>]
             ELSE NoTrail
    /\ UNCHANGED resizeSessions

\* click on the minimize button
GeomMinimize ==
    /\ windows[1].display # "none"
    /\ StoreGeom(minimize(Heap, 1), "minimize")
    /\ toggleTrail' = NoTrail
    /\ UNCHANGED resizeSessions

\* click on the window's dock entry
GeomRestoreByTitle ==
    /\ Len(minimizedModals) > 0
    /\ StoreGeom(restoreModalByTitle(Heap, minimizedModals[1]),
                 "restoreModalByTitle")
    /\ toggleTrail' = NoTrail
    /\ UNCHANGED resizeSessions

\* Window > Restore All
GeomRestoreAllModals ==
    /\ StoreGeom(restoreAllModals(Heap), "restoreAllModals")
    /\ toggleTrail' = NoTrail
    /\ UNCHANGED resizeSessions

\* mousedown on a resize handle
GeomStartResize(direction, x, y) ==
    /\ windows[1].display # "none"
    /\ Len(resizeSessions) < MaxPresses
    /\ StoreGeom(Heap, "startResize")
    /\ resizeSessions' =
        Append(resizeSessions, startResize(windows[1], host, direction, x, y))
    /\ toggleTrail' = NoTrail

RECURSIVE MoveAll(_, _, _, _, _)
\* the document's mousemove listeners, in the order they were added
MoveAll(m, sessions, i, x, y) ==
    IF i > Len(sessions) THEN m
    ELSE MoveAll(resizeOnMouseMove(m, sessions[i], x, y), sessions,
                 i + 1, x, y)

\* mousemove on the document during a resize gesture
GeomMouseMove(x, y) ==
    /\ resizeSessions # <<>>
    /\ StoreGeom([Heap EXCEPT
                    !.windows[1] = MoveAll(@, resizeSessions, 1, x, y)],
                 "onMouseMove")
    /\ toggleTrail' = NoTrail
    /\ UNCHANGED resizeSessions

\* mouseup on the document: every onMouseUp removes its own listener pair
GeomMouseUp ==
    /\ resizeSessions # <<>>
    /\ StoreGeom(Heap, "onMouseUp")
    /\ resizeSessions' = <<>>
    /\ toggleTrail' = NoTrail

NextGeom ==
    \/ GeomToggleMaximize
    \/ GeomMinimize
    \/ GeomRestoreByTitle
    \/ GeomRestoreAllModals
    \/ \E d \in Directions, x \in PressCoords, y \in PressCoords :
            GeomStartResize(d, x, y)
    \/ \E x \in MoveCoords, y \in MoveCoords : GeomMouseMove(x, y)
    \/ GeomMouseUp

SpecGeom == GeomInit /\ [][NextGeom]_vars

\* C4: for a window that is neither minimized nor maximized, two
\* toggleMaximize calls in a row leave width, height, left and top exactly
\* as they were before the first call, and the window not maximized.
C4_MaximizeRoundTrip ==
    toggleTrail.count = 2 =>
        /\ <<Geometry(windows[1])>> = toggleTrail.before
        /\ ~windows[1].isMaximized
        /\ ~windows[1].isMinimized

\* C5: after a resize move, whatever the handle and the deltas, the
\* window's width is at least 300 and its height at least 200.
C5_ResizeMinimum ==
    lastOp.op = "onMouseMove" =>
        /\ ~windows[1].fill
        /\ windows[1].width >= MIN_WIDTH
        /\ windows[1].height >= MIN_HEIGHT

\* a resize move whose deltas asked for less than the minimum both ways
C5_Witness ==
    /\ lastOp.op = "onMouseMove"
    /\ windows[1].width = MIN_WIDTH
    /\ windows[1].height = MIN_HEIGHT

\* C32: a mousemove of a resize gesture on a window that is not maximized,
\* by a handle with w in its name, leaves left + width as it was, and one
\* by a handle with n in its name leaves top + height as it was, whatever
\* the delta, clamped or not.
C32_FarEdgeFixed ==
    [][(/\ Len(resizeSessions) = 1
        /\ lastOp.op \in {"startResize", "onMouseMove"}
        /\ lastOp'.op = "onMouseMove"
        /\ steps' = steps + 1
        /\ ~windows[1].fill)
       => /\ Includes(resizeSessions[1].direction, "w")
              => windows'[1].left + windows'[1].width
                 = windows[1].left + windows[1].width
          /\ Includes(resizeSessions[1].direction, "n")
              => windows'[1].top + windows'[1].height
                 = windows[1].top + windows[1].height]_vars

\* the state of the three-state machine a window is described by: hiding
\* the surface makes it Minimized, whatever it was before
StateOf(m) ==
    IF m.isMinimized THEN "Minimized"
    ELSE IF m.isMaximized THEN "Maximized"
    ELSE "Normal"

\* C12 as claimed: in every reachable state the saved geometry
\* (originalSize) is present if and only if the window's state is
\* Maximized, also after minimize and restore of a maximized window.
C12_SavedIffMaximizedState ==
    \A w \in DOMAIN windows :
        (windows[w].originalSize # <<>>) <=>
            (StateOf(windows[w]) = "Maximized")

\* C12 as amended: the saved geometry is present if and only if the
\* window's maximized flag is set; minimize and restore change neither, so
\* a maximized window keeps its saved geometry while it is minimized.
C12_SavedIffMaximizedFlag ==
    \A w \in DOMAIN windows :
        (windows[w].originalSize # <<>>) <=> windows[w].isMaximized

\* a maximized window has been minimized and still carries originalSize
C12_Witness ==
    /\ lastOp.op = "minimize"
    /\ windows[1].isMinimized
    /\ windows[1].isMaximized
    /\ windows[1].originalSize # <<>>

\* C16 as claimed: restore(), as restoreAllModals and restoreModalByTitle
\* call it, leaves a minimized window visible, in state Normal (neither
\* minimized nor maximized) and notifies the registry; a window that is not
\* minimized is left as it was and nothing is notified.
C16_RestoreToNormal ==
    [][(/\ lastOp'.op \in {"restoreAllModals", "restoreModalByTitle"}
        /\ steps' = steps + 1) =>
        IF windows[1].isMinimized
        THEN /\ windows'[1].display = "flex"
             /\ StateOf(windows'[1]) = "Normal"
             /\ \E i \in DOMAIN emitted' :
                    emitted'[i] = [kind |-> "restored",
                                   title |-> windows[1].title]
        ELSE /\ windows'[1] = windows[1]
             /\ emitted' = <<>>]_vars

\* C16 as amended: restore() leaves a minimized window visible and not
\* minimized, with its maximized flag as it was (state Normal, or Maximized
\* for a window that was maximized when it was minimized), and notifies the
\* registry; a window that is not minimized is left as it was and nothing
\* is notified.
C16_RestoreToPriorState ==
    [][(/\ lastOp'.op \in {"restoreAllModals", "restoreModalByTitle"}
        /\ steps' = steps + 1) =>
        IF windows[1].isMinimized
        THEN /\ windows'[1].display = "flex"
             /\ ~windows'[1].isMinimized
             /\ windows'[1].isMaximized = windows[1].isMaximized
             /\ windows'[1].originalSize = windows[1].originalSize
             /\ StateOf(windows'[1]) =
                    (IF windows[1].isMaximized THEN "Maximized"
                                               ELSE "Normal")
             /\ \E i \in DOMAIN emitted' :
                    emitted'[i] = [kind |-> "restored",
                                   title |-> windows[1].title]
        ELSE /\ windows'[1] = windows[1]
             /\ emitted' = <<>>]_vars

\* restoreAllModals has restored a window that was maximized before it was
\* minimized
C16_Witness ==
    /\ lastOp.op = "restoreAllModals"
    /\ windows[1].isMaximized
    /\ ~windows[1].isMinimized
    /\ windows[1].display = "flex"
    /\ emitted = <<[kind |-> "restored", title |-> windows[1].title]>>


(***************************************************************************)
(* The launchpad specification: the overlay, its search input, its icons   *)
(* and the timer of hide().                                                *)
(***************************************************************************)
QueryChars == {"L", " "}

\* the values one keystroke turns the search input's value into: a
\* character typed at its end, or its last character deleted
Keystrokes(value) ==
    {Append(value, c) : c \in IF Len(value) < MaxQueryLen THEN QueryChars
                               ELSE {}}
    \cup (IF value = <<>> THEN {}
          ELSE {SubSeq(value, 1, Len(value) - 1)})

\* Math.random() in hundredths
RandomPercents == {0, 99}

LaunchStore(op) ==
    /\ lastOp' = [op |-> op, w |-> 0]
    /\ UNCHANGED <<windows, modals, nextZIndex, activeModal, timers,
                   minimizedModals, emitted, afterCloseAll, steps>>
    /\ UNCHANGED <<geomVars, barVars>>

HideCount(q) == Len(SelectSeq(q, LAMBDA t : t.kind = "hide"))
WindowsKeyCount(q) == Len(SelectSeq(q, LAMBDA t : t.kind = "windowsKey"))

\* the fields of the launchpad and of the key listeners become those of p
AssignPad(p) ==
    /\ HideCount(p.timers) <= MaxHideTimers
    /\ WindowsKeyCount(p.timers) <= MaxWindowsKeyTimers
    /\ isVisible' = p.isVisible
    /\ launchpadDisplay' = p.display
    /\ searchValue' = p.value
    /\ filteredModals' = p.filtered
    /\ launchTimers' = p.timers
    /\ metaKeyPressed' = p.metaKeyPressed
    /\ metaKeyTimeout' = p.metaKeyTimeout
    /\ UNCHANGED platformWin

StorePad(p, op) == AssignPad(p) /\ LaunchStore(op)

\* Launchpad.show: the dock's "+" and the New Window menu entry
LaunchShow ==
    /\ StorePad(show(Pad), "show")
    /\ UNCHANGED interrupted

\* Launchpad.hide, called while the launchpad is visible or displayed
LaunchHide ==
    /\ isVisible \/ launchpadDisplay = "flex"
    /\ StorePad(hide(Pad), "hide")
    /\ UNCHANGED interrupted

\* the setTimeout callback of Launchpad.hide
LaunchHideTimeout ==
    /\ launchTimers # <<>>
    /\ Head(launchTimers).kind = "hide"
    /\ StorePad(hideTimeout([Pad EXCEPT !.timers = Tail(@)]), "hideTimeout")
    /\ UNCHANGED interrupted

\* the 'input' event of the search input: a keystroke has made its value q
LaunchInput(q) ==
    /\ launchpadDisplay = "flex"
    /\ StorePad([Pad EXCEPT !.value = q, !.filtered = filterModals(q)],
                "filterModals")
    /\ UNCHANGED interrupted

\* click on the i-th icon shown: CustomUIManager.createModalFromDefinition
\* through launchModalCallback, then Launchpad.hide
LaunchIcon(i, randomX, randomY) ==
    /\ launchpadDisplay = "flex"
    /\ i \in 1..Len(filteredModals)
    /\ Len(windows) < MaxLaunched
    /\ LET modalDef == filteredModals[i]
           position == calculateRandomModalPosition(
                          modalDef.width, modalDef.height, Viewport,
                          randomX, randomY)
       IN  StoreHeap(createModal(Heap, modalDef.title, modalDef.width,
                                 modalDef.height, position.left,
                                 position.top),
                     "launchModal", Len(windows) + 1)
    /\ AssignPad(hide(Pad))
    /\ UNCHANGED <<geomVars, interrupted, menuAction>>

NextLaunch ==
    \/ LaunchShow
    \/ LaunchHide
    \/ LaunchHideTimeout
    \/ \E q \in Keystrokes(searchValue) : LaunchInput(q)
    \/ \E i \in 1..Len(modalDefinitions), rx \in RandomPercents,
          ry \in RandomPercents : LaunchIcon(i, rx, ry)

SpecLaunch == Init /\ [][NextLaunch]_vars

\* q occurs in title, letter case aside
ContainsIgnoringCase(title, q) ==
    \E k \in 0..Len(title) :
        /\ k + Len(q) <= Len(title)
        /\ \A j \in 1..Len(q) :
              toLowerCase(<<title[k + j]>>) = toLowerCase(<<q[j]>>)

\* q without the white space before its first and after its last other
\* character
Stripped(q) ==
    LET solid == {i \in 1..Len(q) : q[i] \notin WhiteSpace}
    IN  IF solid = {} THEN <<>>
        ELSE SubSeq(q, CHOOSE i \in solid : \A j \in solid : i <= j,
                       CHOOSE i \in solid : \A j \in solid : j <= i)

\* C6 as claimed: after the search input's value becomes q, the filtered
\* view is exactly the catalog subsequence whose titles contain q
\* case-insensitively, in catalog order (q = "" giving the full catalog).
C6_FilterExact ==
    lastOp.op = "filterModals" =>
        filteredModals =
            SelectSeq(modalDefinitions,
                      LAMBDA d : ContainsIgnoringCase(Characters[d.title],
                                                      searchValue))

\* C6 as amended: the filtered view is exactly the catalog subsequence
\* whose titles contain, case-insensitively, q stripped of leading and
\* trailing white space, in catalog order; a q that is empty or all white
\* space gives the full catalog.
C6_FilterTrimmed ==
    lastOp.op = "filterModals" =>
        /\ filteredModals =
            SelectSeq(modalDefinitions,
                      LAMBDA d : ContainsIgnoringCase(Characters[d.title],
                                                      Stripped(searchValue)))
        /\ Stripped(searchValue) = <<>> => filteredModals = modalDefinitions

\* a query with white space around a letter has narrowed the view to some
\* but not all of the catalog
C6_Witness ==
    /\ lastOp.op = "filterModals"
    /\ Len(searchValue) >= 2
    /\ searchValue[1] \in WhiteSpace
    /\ Stripped(searchValue) # <<>>
    /\ Len(filteredModals) > 0
    /\ Len(filteredModals) < Len(modalDefinitions)

\* C20: hide() resets the query to empty and the filtered view to the full
\* catalog, so that a show() of the hidden launchpad, however soon after
\* the hide(), starts from an empty query and the full catalog.
C20_ShowStartsClean ==
    [][/\ lastOp'.op = "hideTimeout" =>
            (searchValue' = <<>> /\ filteredModals' = modalDefinitions)
       /\ (lastOp'.op = "show" /\ ~isVisible) =>
            (searchValue' = <<>> /\ filteredModals' = modalDefinitions)]_vars

\* C21: the placement of a window launched from the catalog satisfies
\* 50 <= left <= max(50, hostWidth - width - 50) and
\* 50 <= top <= max(50, hostHeight - height - 100), whatever Math.random()
\* returns.
C21_PlacementInRange ==
    lastOp.op = "launchModal" =>
        LET m == windows[lastOp.w]
        IN  /\ 50 <= m.left
            /\ m.left <= Max(50, host.width - m.width - 50)
            /\ 50 <= m.top
            /\ m.top <= Max(50, host.height - m.height - 100)

\* C22: calculateRandomModalPosition returns a left greater than 50 and a
\* top greater than 50, whatever Math.random() returns.
C22_PositionAboveFifty ==
    lastOp.op = "launchModal" =>
        (windows[lastOp.w].left > 50 /\ windows[lastOp.w].top > 50)

\* C35: whenever no timer of the launchpad is pending, the overlay is
\* displayed if and only if isVisible is true; so a show() during the 200 ms
\* of a hide() leaves the overlay displayed after the timer.
C35_FlagMatchesSurface ==
    launchTimers = <<>> => (launchpadDisplay # "none" <=> isVisible)


(***************************************************************************)
(* The key specification: the launchpad's overlay with the keyboard, the   *)
(* dwell timer of the Meta key and the ways of dismissing the overlay.     *)
(***************************************************************************)
\* keys other than F4 and Meta
OtherKeys == {"Escape", "a"}

KeysInit ==
    /\ RegInit
    /\ GeomIdle
    /\ LaunchInit
    /\ BarInit
    /\ metaKeyPressed = FALSE
    /\ metaKeyTimeout = 0
    /\ interrupted = FALSE
    /\ platformWin \in BOOLEAN

\* keydown of F4
KeyDownF4 ==
    /\ StorePad(keydown(Pad, "F4"), "keydownF4")
    /\ interrupted' = (metaKeyPressed \/ interrupted)

\* keydown of Meta, first or repeated; on Windows the second listener sets
\* its 50 ms timer, which runs before the 200 ms timer of the same event
KeyDownMeta(pos) ==
    /\ pos \in WindowsKeyPositions(launchTimers)
    /\ IF platformWin
       THEN StorePad(windowsKeydown(keydown(Pad, "Meta"), pos),
                     "keydownMeta")
       ELSE pos = 0 /\ StorePad(keydown(Pad, "Meta"), "keydownMeta")
    /\ interrupted' = (metaKeyPressed /\ interrupted)

\* keydown of another key: both document listeners run
KeyDownOther(key) ==
    /\ StorePad(keydown(launchpadKeydown(Pad, key), key),
                IF key = "Escape" THEN "keydownEscape" ELSE "keydownOther")
    /\ interrupted' = (metaKeyPressed \/ interrupted)

\* keyup of Meta
KeyUpMeta ==
    /\ StorePad(keyup(Pad, "Meta"), "keyupMeta")
    /\ interrupted' = TRUE

\* the dwell timer runs
MetaKeyTimeout ==
    /\ launchTimers # <<>>
    /\ Head(launchTimers).kind = "metaKey"
    /\ StorePad(metaKeyTimeoutCallback([Pad EXCEPT !.timers = Tail(@)]),
                "metaKeyTimeout")
    /\ UNCHANGED interrupted

\* the timer of the Windows listener runs
WindowsKeyTimeout ==
    /\ launchTimers # <<>>
    /\ Head(launchTimers).kind = "windowsKey"
    /\ StorePad(toggle([Pad EXCEPT !.timers = Tail(@)]),
                "windowsKeyTimeout")
    /\ UNCHANGED interrupted

\* click on the overlay outside the search box and the icons
OverlayClick ==
    /\ launchpadDisplay = "flex"
    /\ StorePad(launchpadClick(Pad, TRUE), "overlayClick")
    /\ UNCHANGED interrupted

\* the search input loses the focus: its blur listener restyles its border
SearchBlur ==
    /\ launchpadDisplay = "flex"
    /\ StorePad(Pad, "blur")
    /\ UNCHANGED interrupted

NextKeys ==
    \/ LaunchShow
    \/ LaunchHideTimeout
    \/ KeyDownF4
    \/ \E pos \in 0..Len(launchTimers) : KeyDownMeta(pos)
    \/ \E key \in OtherKeys : KeyDownOther(key)
    \/ KeyUpMeta
    \/ MetaKeyTimeout
    \/ WindowsKeyTimeout
    \/ OverlayClick
    \/ SearchBlur

SpecKeys == KeysInit /\ [][NextKeys]_vars

\* C17: the dwell timer never opens the launchpad after an interruption:
\* when another key (F4 included) was pressed or Meta was released between
\* the press of Meta and the timer's expiry, the timer's callback does not
\* call show(); and after the release of Meta no dwell timer is pending and
\* metaKeyPressed is false.
C17_NoShowAfterInterruption ==
    [][/\ (lastOp'.op = "metaKeyTimeout" /\ interrupted)
            => ~(~isVisible /\ isVisible')
       /\ lastOp'.op = "keyupMeta"
            => (/\ ~metaKeyPressed'
                /\ \A i \in 1..Len(launchTimers') :
                      launchTimers'[i].kind # "metaKey")]_vars


\* C18: when Meta was pressed and held with no other key event until the
\* dwell timer runs, the launchpad is visible after the timer's callback:
\* shown when it was not visible, left as it was when it was.
C18_DwellOpens ==
    [][(lastOp'.op = "metaKeyTimeout" /\ ~interrupted)
         => (/\ isVisible'
             /\ ~isVisible => launchpadDisplay' = "flex"
             /\ isVisible => launchpadDisplay' = launchpadDisplay)]_vars

C18_Witness ==
    /\ lastOp.op = "metaKeyTimeout"
    /\ ~interrupted
    /\ metaKeyPressed
    /\ isVisible
    /\ launchpadDisplay = "flex"
    /\ launchTimers = <<>>


\* what a step leaves of the launchpad when it changes nothing of it
LaunchpadUntouched ==
    /\ UNCHANGED <<isVisible, launchpadDisplay, searchValue, filteredModals>>
    /\ HideCount(launchTimers') = HideCount(launchTimers)

\* C19 as stated: while the launchpad is visible, Escape, a click on the
\* overlay outside the catalog and the loss of focus each hide it; Escape
\* while it is hidden changes nothing.
C19_DismissEvents ==
    [][/\ (isVisible /\ lastOp'.op \in {"keydownEscape", "overlayClick",
                                        "blur"})
            => ~isVisible'
       /\ (~isVisible /\ lastOp'.op = "keydownEscape")
            => LaunchpadUntouched]_vars

\* C19 as the code has it: while the launchpad is visible, Escape and a
\* click on the overlay outside the catalog each hide it, and the loss of
\* focus leaves it visible; Escape while it is hidden changes nothing.
C19_DismissKeyAndOverlay ==
    [][/\ (isVisible /\ lastOp'.op \in {"keydownEscape", "overlayClick"})
            => (~isVisible' /\ HideCount(launchTimers')
                                 = HideCount(launchTimers) + 1)
       /\ (isVisible /\ lastOp'.op = "blur")
            => (isVisible' /\ LaunchpadUntouched)
       /\ (~isVisible /\ lastOp'.op = "keydownEscape")
            => LaunchpadUntouched]_vars

C19_Witness ==
    /\ lastOp.op = "keydownEscape"
    /\ ~isVisible
    /\ launchpadDisplay = "flex"
    /\ HideCount(launchTimers) = 1


(***************************************************************************)
(* The title bar specification: the registry and the dock as the user      *)
(* reaches them, with the title bar's label, tabs, app icon and menus.     *)
(* Timers of different durations (10 ms debounce, 200 ms close, 300 ms     *)
(* animation) run in any order that keeps each kind first in, first out,   *)
(* which includes every order the durations allow.                         *)
(***************************************************************************)
StoreBar(h, op, w) ==
    /\ steps < MaxBarSteps
    /\ StoreHeap(h, op, w)
    /\ UNCHANGED <<geomVars, launchVars, keyVars, menuAction>>

\* a window is created and appended to the content area
BarCreateModal(t) ==
    StoreBar(createModal(Heap, t, DefaultBox.width, DefaultBox.height,
                         DefaultBox.left, DefaultBox.top),
             "createModal", Len(windows) + 1)

\* mousedown on a window on screen
BarMouseDown(w) ==
    /\ w \in InDom
    /\ windows[w].display # "none"
    /\ StoreBar(bringModalToFront(Heap, w), "bringModalToFront", w)

\* the minimize button of a window on screen
BarMinimize(w) ==
    /\ w \in InDom
    /\ windows[w].display # "none"
    /\ StoreBar(minimize(Heap, w), "minimize", w)

\* the close button of a window on screen
BarCloseModal(w) ==
    /\ w \in InDom
    /\ windows[w].display # "none"
    /\ StoreBar(modalCloseEvent(Heap, w), "closeModal", w)

BarCloseModalTimeout ==
    /\ timers # <<>>
    /\ StoreBar(closeModalTimeout([Heap EXCEPT !.timers = Tail(@)],
                                  Head(timers)),
                "closeModalTimeout", Head(timers))

\* click on the k-th item of the dock
BarDockItem(k) ==
    /\ k \in 1..Len(minimizedModals)
    /\ StoreBar(restoreModalByTitle(Heap, minimizedModals[k]),
                "restoreModalByTitle", 0)

\* the timer of updateModalTabsDebounced runs
UpdateModalTabsTimeout ==
    /\ tabsTimer
    /\ StoreBar(updateModalTabsTimeout(Heap), "updateModalTabs", 0)

\* click on the k-th tab
TabClick(k) ==
    /\ k \in 1..Len(modalTabs)
    /\ StoreBar(tabClick(Heap, k), "tabClick", k)

\* the timer of the oldest pending DOMUtils.animate runs and its promise's
\* then() with it
AnimationTimeout ==
    /\ animations # <<>>
    /\ LET a == Head(animations)
           h == [Heap EXCEPT !.animations = Tail(@)]
       IN  StoreBar(IF a.kind = "restoreFromDock"
                    THEN restoreModalFromDockThen(h, a.w)
                    ELSE minimizeModalToDockThen(h, a.w),
                    a.kind, a.w)

AppIconClick == StoreBar(appIconClick(Heap), "appIconClick", 0)

BackgroundClick == StoreBar(backgroundClick(Heap), "backgroundClick", 0)

\* click on a menu button of the title bar
MenuClick(item) ==
    /\ steps < MaxBarSteps
    /\ LET r == handleMenuAction(Heap, Pad, menuItemAction(item))
       IN  /\ StoreHeap(r.heap, "menuAction", 0)
           /\ AssignPad(r.pad)
    /\ menuAction' = menuItemAction(item)
    /\ UNCHANGED <<geomVars, interrupted>>

NextBar ==
    \/ \E t \in Titles : BarCreateModal(t)
    \/ \E w \in DOMAIN windows : BarMouseDown(w)
    \/ \E w \in DOMAIN windows : BarMinimize(w)
    \/ \E w \in DOMAIN windows : BarCloseModal(w)
    \/ BarCloseModalTimeout
    \/ \E k \in 1..Len(minimizedModals) : BarDockItem(k)
    \/ UpdateModalTabsTimeout
    \/ \E k \in 1..Len(modalTabs) : TabClick(k)
    \/ AnimationTimeout
    \/ AppIconClick
    \/ BackgroundClick
    \/ \E item \in MenuItems : MenuClick(item)

SpecBar == Init /\ [][NextBar]_vars

\* no timer of the registry or of the title bar is pending
Settled == timers = <<>> /\ ~tabsTimer /\ animations = <<>>


\* C23: once the pending timers have run, the branding label is the active
\* window's title when a window is active and the default label when none
\* is, also after the active window was closed and no window remains.
C23_BrandingFollowsFocus ==
    Settled =>
        brandingText = IF activeModal # 0 THEN windows[activeModal].title
                                          ELSE DefaultBranding


\* C28: a click on a tab restores the tab's window when it is minimized
\* (it is then no longer minimized and has no dock entry) and focuses it
\* through the registry when it is not; a click on a tab whose title is no
\* longer registered changes nothing.
C28_TabActivation ==
    [][(lastOp'.op = "tabClick" /\ steps' = steps + 1) =>
        LET t == modalTabs[lastOp'.w].title
            w == MapGet(modals, t)
        IN  IF w = 0
            THEN /\ UNCHANGED <<windows, modals, nextZIndex, activeModal,
                                timers, minimizedModals, brandingText,
                                animations>>
                 /\ emitted' = <<>>
            ELSE IF windows[w].isMinimized
            THEN /\ ~windows'[w].isMinimized
                 /\ windows'[w].display # "none"
                 /\ \A k \in 1..Len(minimizedModals') :
                       minimizedModals'[k] # t
            ELSE /\ activeModal' = w
                 /\ windows'[w].active
                 /\ windows'[w].zIndex = nextZIndex'
                 /\ nextZIndex' > nextZIndex]_vars


\* C29: once the pending timers have run, the tab strip has one tab for
\* each registered window and none for a closed one, each tab marked
\* active and minimized as its window now is, after every kind of change.
C29_TabsMatchWindows ==
    Settled =>
        /\ Len(modalTabs) = Len(modals)
        /\ \A k \in 1..Len(modalTabs) : MapHas(modals, modalTabs[k].title)
        /\ \A i \in 1..Len(modals) :
              \E k \in 1..Len(modalTabs) :
                  /\ modalTabs[k].title = modals[i].title
                  /\ modalTabs[k].isActive = (activeModal = modals[i].id)
                  /\ modalTabs[k].isMinimized
                        = windows[modals[i].id].isMinimized


\* the step leaves the registry and the dock as they are in h
RegistryBecomes(h) ==
    /\ windows' = h.windows
    /\ modals' = h.modals
    /\ nextZIndex' = h.nextZIndex
    /\ activeModal' = h.activeModal
    /\ timers' = h.timers
    /\ minimizedModals' = h.minimizedModals

\* C30: a menu command of the title bar is one of the six and reaches the
\* registry as its operation: Close Window closes the active window (and
\* does nothing when none is active), Minimize All, Restore All, Bring All
\* to Front and Close All call minimizeAllModals, restoreAllModals,
\* resetModalZIndexes and closeAllModals, New Window opens the launchpad.
C30_MenuCommands ==
    [][(lastOp'.op = "menuAction" /\ steps' = steps + 1) =>
        \/ menuAction' = "New Window" /\ isVisible'
        \/ /\ menuAction' = "Close Window"
           /\ RegistryBecomes(IF activeModal # 0
                              THEN closeModal(Heap, activeModal) ELSE Heap)
        \/ /\ menuAction' = "Minimize All"
           /\ RegistryBecomes(minimizeAllModals(Heap))
        \/ /\ menuAction' = "Restore All"
           /\ RegistryBecomes(restoreAllModals(Heap))
        \/ /\ menuAction' = "Bring All to Front"
           /\ RegistryBecomes(resetModalZIndexes(Heap))
        \/ /\ menuAction' = "Close All"
           /\ RegistryBecomes(closeAllModals(Heap))]_vars


\* C38: once no animation timer is pending, the surface of a registered
\* window is hidden if and only if the window is minimized, and the window
\* is minimized if and only if its title has a dock entry.
C38_HiddenIffMinimized ==
    animations = <<>> =>
        \A w \in Registered :
            /\ (windows[w].display = "none") <=> windows[w].isMinimized
            /\ windows[w].isMinimized <=> (windows[w].title \in DockTitles)

(***************************************************************************)
(* The gesture specification: one ModalWindow on the content area, the     *)
(* mousedown listeners of its title bar and of its resize handles, and the *)
(* mousemove and mouseup events of the document.                           *)
(***************************************************************************)
\* clientX, clientY of a mouseup: over the window, and outside it
ReleasePoints == {<<150, 150>>, <<2000, 2000>>}

Doc == [m |-> windows[1], drag |-> dragState, listeners |-> documentListeners]

ListenersOf(ls, type) == SelectSeq(ls, LAMBDA l : l.type = type)

StoreDrag(d, h, op, x, y, ran) ==
    /\ steps < MaxDragSteps
    /\ StoreHeap([h EXCEPT !.windows[1] = d.m], op, 1)
    /\ dragState' = d.drag
    /\ documentListeners' = d.listeners
    /\ mouse' = [x |-> x, y |-> y, ran |-> ran]
    /\ UNCHANGED <<host, resizeSessions, toggleTrail, launchVars, keyVars,
                   menuAction>>

\* mousedown on the title bar: makeDraggable's listener, then the
\* mousedown listener createModal put on the window
TitleBarMouseDown(x, y, onButton) ==
    /\ windows[1].display # "none"
    /\ LET d == dragOnMouseDown(Doc, host, x, y, onButton)
           h == bringModalToFront([Heap EXCEPT !.windows[1] = d.m], 1)
       IN  StoreDrag([d EXCEPT !.m = h.windows[1]], h, "dragMouseDown",
                     mouse.x, mouse.y, 0)

\* mousedown on a resize handle; stopPropagation keeps it from the window
HandleMouseDown(direction, x, y) ==
    /\ windows[1].display # "none"
    /\ Len(ListenersOf(documentListeners, "mouseup")) < MaxGestures
    /\ StoreDrag(resizeOnMouseDown(Doc, host, direction, x, y, steps + 1),
                 Heap, "resizeMouseDown", mouse.x, mouse.y, 0)

\* mousemove on the document during a gesture
DocumentMouseMove(x, y) ==
    /\ documentListeners # <<>>
    /\ StoreDrag(dispatchEvent(Doc, "mousemove", x, y), Heap, "mousemove",
                 x, y, Len(ListenersOf(documentListeners, "mousemove")))

\* mouseup on the document during a gesture
DocumentMouseUp(x, y) ==
    /\ documentListeners # <<>>
    /\ StoreDrag(dispatchEvent(Doc, "mouseup", x, y), Heap, "mouseup",
                 x, y, Len(ListenersOf(documentListeners, "mouseup")))

NextDrag ==
    \/ \E x \in PressCoords, y \in PressCoords, b \in BOOLEAN :
            TitleBarMouseDown(x, y, b)
    \/ \E d \in Directions, x \in PressCoords, y \in PressCoords :
            HandleMouseDown(d, x, y)
    \/ \E x \in MoveCoords, y \in MoveCoords : DocumentMouseMove(x, y)
    \/ \E p \in ReleasePoints : DocumentMouseUp(p[1], p[2])

SpecDrag == GeomInit /\ [][NextDrag]_vars

\* C31: after a mouseup on the document, wherever the pointer is and
\* however many presses came before it, no mousemove or mouseup listener of
\* the window's drag or resize gestures is left on the document.
C31_ListenersRemoved ==
    lastOp.op = "mouseup" => documentListeners = <<>>

C31_Witness ==
    /\ lastOp.op = "mouseup"
    /\ mouse.ran = 2
    /\ mouse.x = 2000
    /\ documentListeners = <<>>

\* C33: the first mousemove of a drag, at (x, y) after a press at
\* (startX, startY), sets left to its value at the press plus x - startX
\* and top to its value at the press plus y - startY, and leaves width,
\* height, the state flags, the z-index and the active flag as they were,
\* for every position of the content area in the viewport.
C33_DragTranslates ==
    [][(/\ lastOp.op = "dragMouseDown"
        /\ documentListeners # <<>>
        /\ \A i \in 1..Len(documentListeners) :
                documentListeners[i].fn.kind = "drag"
        /\ lastOp'.op = "mousemove"
        /\ steps' = steps + 1)
       => /\ windows'[1].left = windows[1].left + (mouse'.x - dragState.startX)
          /\ windows'[1].top = windows[1].top + (mouse'.y - dragState.startY)
          /\ windows'[1].width = windows[1].width
          /\ windows'[1].height = windows[1].height
          /\ windows'[1].fill = windows[1].fill
          /\ windows'[1].isMinimized = windows[1].isMinimized
          /\ windows'[1].isMaximized = windows[1].isMaximized
          /\ windows'[1].zIndex = windows[1].zIndex
          /\ windows'[1].active = windows[1].active]_vars

====
